---- MODULE Spec2Model ----
(***************************************************************************)
(* Model of the code-coverage task plugin (src/task.js): the three tasks   *)
(* resetCoverage, combineCoverage and coverageReport acting on the         *)
(* persisted coverage file <cwd>/.nyc_output/out.json.                     *)
(*                                                                         *)
(* A JSON text is a sequence of tokens; an object in memory is a sequence  *)
(* of entries in insertion order (the order JSON.stringify emits them in). *)
(***************************************************************************)
EXTENDS Integers, Sequences, FiniteSets, TLC

VARIABLES
    customNycReportScript,  \* scripts['coverage:report'] of package.json
    coverageFolder,         \* TRUE iff the folder <cwd>/.nyc_output exists
    nycFilename,            \* the file out.json: [exists, text]
    result,                 \* what the last task call returned, threw or resolved to
    call,                   \* the last task call and the effects it had
    combines,               \* number of payloads combined since the store was last empty
    total,                  \* per file, the sum of the hit counts of those payloads
    times,                  \* per file, how many of those payloads cover it
    fresh,                  \* TRUE iff the accumulation started from an absent or empty file
    saved,                  \* the map last given to saveCoverage, while the file still holds it
    history                 \* "saved" once a combineCoverage or an interactive resetCoverage
                            \* succeeded; before that, whether out.json was "absent" or
                            \* "present" when the plugin was loaded

vars == <<customNycReportScript, coverageFolder, nycFilename, result, call,
          combines, total, times, fresh, saved, history>>

----------------------------------------------------------------------------
(* Bounds *)

MaxHit == 1        \* largest hit count of one statement in one payload
MaxCombines == 2   \* combineCoverage calls since the store was last reset

----------------------------------------------------------------------------
(* Strings: a path is its form and its base name. *)

Str(form, name) == [form |-> form, name |-> name]
Lit(name) == Str("lit", name)
Abs(name) == Str("abs", name)     \* absolute path of a file that exists
Rel(name) == Str("rel", name)     \* path relative to the working directory
Lost(name) == Str("lost", name)   \* absolute path that is not on this disk
NoStr == Str("none", "none")

Files == {"a.js", "b.js"}
\* number of statements the instrumenter found in each source file
Statements(name) == IF name = "a.js" THEN 2 ELSE 1
\* the base names that match exactly one file under the working tree
UniqueLocal == {"a.js"}

----------------------------------------------------------------------------
(* JSON texts *)

Tok(t, str, n) == [t |-> t, form |-> str.form, name |-> str.name, n |-> n]
LB == Tok("{", NoStr, 0)
RB == Tok("}", NoStr, 0)
Key(str) == Tok("key", str, 0)
StrTok(str) == Tok("str", str, 0)
NKey(i) == Tok("nkey", NoStr, i)
Num(n) == Tok("num", NoStr, n)
TokStr(tok) == Str(tok.form, tok.name)

\* one file's coverage record
FileCoverage(key, path, sources, s) ==
    [key |-> key, path |-> path, sources |-> sources, s |-> s]

RECURSIVE StringifyCounts(_, _)
StringifyCounts(s, i) ==
    IF i > Len(s) THEN <<>>
    ELSE <<NKey(i - 1), Num(s[i])>> \o StringifyCounts(s, i + 1)

StringifyEntry(e) ==
    <<Key(e.key), LB, Key(Lit("path")), StrTok(e.path),
      Key(Lit("sources")), StrTok(e.sources), Key(Lit("s")), LB>>
    \o StringifyCounts(e.s, 1) \o <<RB, RB>>

RECURSIVE StringifyEntries(_, _)
StringifyEntries(m, i) ==
    IF i > Len(m) THEN <<>>
    ELSE StringifyEntry(m[i]) \o StringifyEntries(m, i + 1)

\* the bug of writing the first file's record only
JSONstringifyFirstOnly(m) ==
    <<LB>> \o (IF Len(m) = 0 THEN <<>> ELSE StringifyEntry(m[1])) \o <<RB>>

\* JSON.stringify(coverage, null, 2)
JSONstringify(m) == <<LB>> \o StringifyEntries(m, 1) \o <<RB>>

ParseFail == [ok |-> FALSE, val |-> <<>>, next |-> 0]

RECURSIVE ParseCounts(_, _, _)
ParseCounts(text, i, acc) ==
    IF i > Len(text) THEN ParseFail
    ELSE IF text[i] = RB THEN [ok |-> TRUE, val |-> acc, next |-> i + 1]
    ELSE IF /\ i + 1 <= Len(text)
            /\ text[i] = NKey(Len(acc))
            /\ text[i + 1].t = "num"
         THEN ParseCounts(text, i + 2, Append(acc, text[i + 1].n))
         ELSE ParseFail

\* an assignment obj[key] = value: a key the object has keeps its position
PutEntry(m, e) ==
    IF \E i \in 1..Len(m) : m[i].key = e.key
    THEN [i \in 1..Len(m) |-> IF m[i].key = e.key THEN e ELSE m[i]]
    ELSE Append(m, e)

RECURSIVE ParseEntries(_, _, _)
ParseEntries(text, i, acc) ==
    IF i > Len(text) THEN ParseFail
    ELSE IF text[i] = RB
         THEN IF i = Len(text) THEN [ok |-> TRUE, val |-> acc, next |-> i + 1]
              ELSE ParseFail
    ELSE IF /\ i + 7 <= Len(text)
            /\ text[i].t = "key"
            /\ text[i + 1] = LB
            /\ text[i + 2] = Key(Lit("path"))
            /\ text[i + 3].t = "str"
            /\ text[i + 4] = Key(Lit("sources"))
            /\ text[i + 5].t = "str"
            /\ text[i + 6] = Key(Lit("s"))
            /\ text[i + 7] = LB
         THEN LET counts == ParseCounts(text, i + 8, <<>>)
              IN  IF /\ counts.ok
                     /\ counts.next <= Len(text)
                     /\ text[counts.next] = RB
                  THEN ParseEntries(text, counts.next + 1,
                           PutEntry(acc, FileCoverage(TokStr(text[i]),
                               TokStr(text[i + 3]), TokStr(text[i + 5]), counts.val)))
                  ELSE ParseFail
         ELSE ParseFail

\* the bug of taking a text that is not JSON for the empty map
JSONparseLenient(text) ==
    IF Len(text) >= 2 /\ text[1] = LB /\ ParseEntries(text, 2, <<>>).ok
    THEN ParseEntries(text, 2, <<>>)
    ELSE [ok |-> TRUE, val |-> <<>>, next |-> 0]

\* JSON.parse(text): ok is FALSE when it throws a SyntaxError
JSONparse(text) ==
    IF Len(text) >= 1 /\ text[1] = LB THEN ParseEntries(text, 2, <<>>)
    ELSE ParseFail

----------------------------------------------------------------------------
(* The coverage payloads the browser side sends *)

Records(name) ==
    {FileCoverage(Abs(name), Abs(name), Rel(name), s) :
        s \in [1..Statements(name) -> 0..MaxHit]}

Payloads ==
    {<<>>}
    \cup {<<r>> : r \in Records("a.js") \cup Records("b.js")}
    \cup {<<ra, rb>> : ra \in Records("a.js"), rb \in Records("b.js")}

\* texts that are not JSON: empty, cut short, or with a brace too many
Malformed == {<<>>, <<LB>>, <<LB, RB, RB>>}

SentCoverages == {JSONstringify(p) : p \in Payloads} \cup Malformed

----------------------------------------------------------------------------
(* The store *)

NoFile == [exists |-> FALSE, text |-> <<>>]
File(text) == [exists |-> TRUE, text |-> text]
NotSaved == [valid |-> FALSE, map |-> <<>>]

\* a coverage file left by a run of the code instrumented on another machine:
\* none of its paths is on this disk
LegacyLost ==
    <<FileCoverage(Lost("a.js"), Lost("a.js"), Lost("a.js"), <<1, 0>>),
      FileCoverage(Lost("b.js"), Lost("b.js"), Lost("b.js"), <<1>>)>>

\* what the plugin can find when it is loaded: no folder .nyc_output, the
\* folder without out.json, or the file of another run
InitialStores == {"nofolder", "nofile", "lost"}

\* the bug of a test for the file that always succeeds
existsSyncAlways(file) == TRUE

\* fs.existsSync, of the file out.json
existsSync(file) == file.exists

\* the bug of writing only inside the `if` that creates the folder
saveCoverageInsideIf(coverage) ==
    IF ~coverageFolder
    THEN /\ coverageFolder' = TRUE
         /\ nycFilename' = File(JSONstringify(coverage))
         /\ saved' = [valid |-> TRUE, map |-> coverage]
    ELSE UNCHANGED <<coverageFolder, nycFilename, saved>>

saveCoverage(coverage) ==
    /\ coverageFolder' = TRUE
    /\ nycFilename' = File(JSONstringify(coverage))
    /\ saved' = [valid |-> TRUE, map |-> coverage]

\* the bug of starting every merge from an empty map
loadCoverageForgets == <<>>

\* existsSync(nycFilename) ? JSON.parse(readFileSync(nycFilename)) : createCoverageMap({})
loadCoverage ==
    IF existsSync(nycFilename) THEN JSONparse(nycFilename.text).val ELSE <<>>

----------------------------------------------------------------------------
(* Merging, as istanbul-lib-coverage does it *)

\* the bug of taking the other record's hit counts instead of adding them
mergeFileCoverageOverwrites(mine, other) == [mine EXCEPT !.s = other.s]

\* FileCoverage.merge: the hit counts of the other record are added
mergeFileCoverage(mine, other) ==
    [mine EXCEPT !.s = [k \in DOMAIN mine.s |->
        mine.s[k] + (IF k \in DOMAIN other.s THEN other.s[k] ELSE 0)]]

\* CoverageMap.addFileCoverage: looked up by the record's path
addFileCoverage(map, fc) ==
    IF \E i \in 1..Len(map) : map[i].key = fc.path
    THEN [i \in 1..Len(map) |->
            IF map[i].key = fc.path THEN mergeFileCoverage(map[i], fc) ELSE map[i]]
    ELSE Append(map, [fc EXCEPT !.key = fc.path])

RECURSIVE mergeFrom(_, _, _)
mergeFrom(map, coverage, i) ==
    IF i > Len(coverage) THEN map
    ELSE mergeFrom(addFileCoverage(map, coverage[i]), coverage, i + 1)

\* coverageMap.merge(coverage)
merge(map, coverage) == mergeFrom(map, coverage, 1)

\* the source-map entry of each record that names the file becomes its path
fixSourcePaths(coverage) ==
    [i \in 1..Len(coverage) |->
        IF coverage[i].sources.name = coverage[i].path.name
        THEN [coverage[i] EXCEPT !.sources = coverage[i].path]
        ELSE coverage[i]]

----------------------------------------------------------------------------
(* What the payloads sent so far add up to: kept beside the store, never read
   by the tasks. Integer addition does not depend on the order of the calls. *)

ZeroCounts(name) == [k \in 1..Statements(name) |-> 0]
NoTotal == [name \in Files |-> ZeroCounts(name)]
NoTimes == [name \in Files |-> 0]

Covers(payload, name) == \E i \in 1..Len(payload) : payload[i].path.name = name
CountsIn(payload, name) ==
    LET i == CHOOSE j \in 1..Len(payload) : payload[j].path.name = name
    IN  payload[i].s

Account(payload) ==
    /\ combines' = combines + 1
    /\ total' = [name \in Files |->
                    IF Covers(payload, name)
                    THEN [k \in 1..Statements(name) |->
                             total[name][k] + CountsIn(payload, name)[k]]
                    ELSE total[name]]
    /\ times' = [name \in Files |->
                    IF Covers(payload, name) THEN times[name] + 1 ELSE times[name]]

----------------------------------------------------------------------------
(* Results and the record of a call *)

Result(kind, str) == [kind |-> kind, form |-> str.form, name |-> str.name]
Null == Result("null", NoStr)
Throws(name) == Result("throw", Lit(name))
Resolved(str) == Result("resolved", str)
Rejected(name) == Result("rejected", Lit(name))

NoResult == Result("none", NoStr)

Call(task, arg) ==
    [task |-> task, arg |-> arg, spawned |-> 0, engine |-> 0, pathSteps |-> FALSE,
     reportDir |-> NoStr, artifact |-> FALSE]

\* no task is running and the host holds no result
Idle == Call("none", "none")

----------------------------------------------------------------------------
(* The tasks. The host runs them one at a time: it sends the next task only
   after it has taken the result of the one before. *)

\* whether the text the host sent is one of the texts that are not JSON
Wellformedness(sentCoverage) ==
    IF sentCoverage \in Malformed THEN "malformed" ELSE "valid"

\* the bug of testing the flag the wrong way round
resetCoverageInverted(isInteractive) ==
    /\ call = Idle
    /\ IF ~isInteractive
       THEN /\ saveCoverage(<<>>)
            /\ combines' = 0
            /\ total' = NoTotal
            /\ times' = NoTimes
            /\ fresh' = TRUE
            /\ history' = "saved"
       ELSE UNCHANGED <<coverageFolder, nycFilename, saved, combines, total, times,
                        fresh, history>>
    /\ result' = Null
    /\ call' = Call("resetCoverage", IF isInteractive THEN "interactive" ELSE "headless")
    /\ UNCHANGED customNycReportScript

resetCoverage(isInteractive) ==
    /\ call = Idle
    /\ IF isInteractive
       THEN /\ saveCoverage(<<>>)
            /\ combines' = 0
            /\ total' = NoTotal
            /\ times' = NoTimes
            /\ fresh' = TRUE
            /\ history' = "saved"
       ELSE UNCHANGED <<coverageFolder, nycFilename, saved, combines, total, times,
                        fresh, history>>
    /\ result' = Null
    /\ call' = Call("resetCoverage", IF isInteractive THEN "interactive" ELSE "headless")
    /\ UNCHANGED customNycReportScript

combineCoverage(sentCoverage) ==
    LET parsed == JSONparse(sentCoverage) IN
    /\ call = Idle
    /\ sentCoverage \in Malformed \/ combines < MaxCombines
    /\ IF ~parsed.ok
       THEN /\ result' = Throws("SyntaxError")
            /\ call' = Call("combineCoverage", Wellformedness(sentCoverage))
            /\ UNCHANGED <<coverageFolder, nycFilename, saved, combines, total, times,
                           history>>
       ELSE LET coverage == fixSourcePaths(parsed.val)
                previous == loadCoverage
                coverageMap == merge(previous, coverage)
            IN  /\ saveCoverage(coverageMap)
                /\ Account(parsed.val)
                /\ history' = "saved"
                /\ result' = Null
                /\ call' = Call("combineCoverage", Wellformedness(sentCoverage))
    /\ UNCHANGED <<customNycReportScript, fresh>>

----------------------------------------------------------------------------
(* The report *)

\* what package.json can hold under scripts['coverage:report']: nothing, an
\* empty command, a command
Scripts == {"undefined", "", "nyc report"}

\* the test if (customNycReportScript): undefined and '' are falsy
Truthy(script) == script # "undefined" /\ script # ""

\* every recorded source path fails to resolve on disk
checkAllPathsNotFound(coverage) ==
    \A i \in 1..Len(coverage) : coverage[i].path.form = "lost"

\* a path whose base name matches one file of the working tree becomes that file
tryFindingLocalFiles(coverage) ==
    [i \in 1..Len(coverage) |->
        IF coverage[i].path.form = "lost" /\ coverage[i].path.name \in UniqueLocal
        THEN [coverage[i] EXCEPT !.path = Abs(coverage[i].path.name)]
        ELSE coverage[i]]

\* a relative path is resolved against the working directory
resolveRelativePaths(coverage) ==
    [i \in 1..Len(coverage) |->
        IF coverage[i].path.form = "rel"
        THEN [coverage[i] EXCEPT !.path = Abs(coverage[i].path.name)]
        ELSE coverage[i]]

\* path.resolve
resolve(str) == IF str.form = "rel" THEN Abs(str.name) ELSE str

\* the 'report-dir' values the project configuration can give; NoStr is undefined
ReportDirs == {NoStr, Rel("coverage"), Abs("coverage")}

\* what the call throws, "none" when it returns. The test `!existsSync` negates
\* the function itself and is never true, so the file is always read.
maybePrintFinalCoverageFiles(folder, artifact) ==
    IF folder = NoStr THEN "TypeError"       \* join(undefined, ...)
    ELSE IF FALSE THEN "none"                \* if (!existsSync) return
    ELSE IF ~artifact THEN "ENOENT"          \* readFileSync of a missing file
    ELSE "none"

\* the .then(returnReportFolder) of nyc.report()
returnReportFolder(reportFolder, artifact) ==
    LET thrown == maybePrintFinalCoverageFiles(reportFolder, artifact) IN
    IF thrown # "none" THEN Rejected(thrown) ELSE Resolved(reportFolder)

\* nyc.report().then(returnReportFolder), lines 157-181. The project
\* configuration gives reportDir, the reporters write the artifact
\* coverage-final.json or not, and the engine completes or fails.
reportWithNyc ==
    \E reportDir \in ReportDirs, artifact \in BOOLEAN, completes \in BOOLEAN :
        LET reportFolder == IF reportDir # NoStr THEN resolve(reportDir) ELSE reportDir
        IN  /\ result' = IF completes THEN returnReportFolder(reportFolder, artifact)
                         ELSE Rejected("nyc")
            /\ call' = IF completes
                       THEN [Call("coverageReport", "engine") EXCEPT
                                !.engine = 1, !.pathSteps = TRUE,
                                !.reportDir = reportDir, !.artifact = artifact]
                       ELSE [Call("coverageReport", "engineFailed") EXCEPT
                                !.engine = 1, !.pathSteps = TRUE]

\* the bug of not returning after the script was started
runCustomScriptFallsThrough ==
    \E reportDir \in ReportDirs, artifact \in BOOLEAN, completes \in BOOLEAN :
        LET reportFolder == IF reportDir # NoStr THEN resolve(reportDir) ELSE reportDir
        IN  /\ result' = IF completes THEN returnReportFolder(reportFolder, artifact)
                         ELSE Rejected("nyc")
            /\ call' = [Call("coverageReport", "script")
                        EXCEPT !.spawned = 1, !.engine = 1, !.pathSteps = TRUE,
                               !.reportDir = reportDir, !.artifact = artifact]

\* return execa('npm', ['run', 'coverage:report']), lines 145-155
runCustomScript ==
    \E completes \in BOOLEAN :
        /\ result' = IF completes THEN Resolved(Lit("execa")) ELSE Rejected("execa")
        /\ call' = [Call("coverageReport", "script") EXCEPT
                       !.spawned = 1, !.pathSteps = TRUE]

coverageReport ==
    /\ call = Idle
    /\ IF ~existsSync(nycFilename)
       THEN /\ result' = Null
            /\ call' = Call("coverageReport", "absent")
            /\ UNCHANGED <<nycFilename, saved>>
       ELSE LET nycCoverage == JSONparse(nycFilename.text).val
                found == IF checkAllPathsNotFound(nycCoverage)
                         THEN tryFindingLocalFiles(nycCoverage)
                         ELSE nycCoverage
                resolved == resolveRelativePaths(found)
            IN  /\ nycFilename' = File(JSONstringify(resolved))
                /\ saved' = IF resolved = nycCoverage THEN saved ELSE NotSaved
                /\ IF Truthy(customNycReportScript)
                   THEN runCustomScript
                   ELSE reportWithNyc
    /\ UNCHANGED <<customNycReportScript, coverageFolder, combines, total, times,
                   fresh, history>>

----------------------------------------------------------------------------
(* The specification *)

Init ==
    /\ customNycReportScript \in Scripts
    /\ \E initialStore \in InitialStores :
        /\ coverageFolder = (initialStore # "nofolder")
        /\ nycFilename = IF initialStore = "lost" THEN File(JSONstringify(LegacyLost))
                         ELSE NoFile
        /\ fresh = (initialStore # "lost")
        /\ history = IF initialStore = "lost" THEN "present" ELSE "absent"
    /\ result = NoResult
    /\ call = Idle
    /\ combines = 0
    /\ total = NoTotal
    /\ times = NoTimes
    /\ saved = NotSaved

\* on('task', tasks): the host takes the result of the task it sent
taskResult ==
    /\ call # Idle
    /\ call' = Idle
    /\ result' = NoResult
    /\ UNCHANGED <<customNycReportScript, coverageFolder, nycFilename, combines, total,
                   times, fresh, saved, history>>

Reset == \E isInteractive \in BOOLEAN : resetCoverage(isInteractive)
Combine == \E sentCoverage \in SentCoverages : combineCoverage(sentCoverage)
Report == coverageReport

Next == Reset \/ Combine \/ Report \/ taskResult

Spec == Init /\ [][Next]_vars

----------------------------------------------------------------------------
(* The claims *)

\* the map the file out.json holds
Persisted == JSONparse(nycFilename.text).val
HasEntry(name, counts) ==
    \E i \in 1..Len(Persisted) :
        Persisted[i].key = Abs(name) /\ Persisted[i].s = counts
Covered == {name \in Files : times[name] > 0}
Disjoint == \A name \in Files : times[name] <= 1

\* C1: after combineCoverage calls with payloads that cover pairwise disjoint
\* files, starting from an absent or empty file, the persisted map holds
\* exactly the payloads' file entries, each with the hit counts of the payload
\* that supplied it.
C1_DisjointUnion ==
    (fresh /\ Disjoint /\ combines > 0) =>
        /\ nycFilename.exists
        /\ JSONparse(nycFilename.text).ok
        /\ Len(Persisted) = Cardinality(Covered)
        /\ \A name \in Covered : HasEntry(name, total[name])

C1_Witness ==
    /\ fresh /\ Disjoint /\ combines = 2
    /\ call.task = "combineCoverage"
    /\ Len(Persisted) = 2
    /\ Persisted[1].key = Abs("b.js") /\ Persisted[1].s = <<1>>
    /\ Persisted[2].key = Abs("a.js") /\ Persisted[2].s = <<0, 1>>

\* C2: resetCoverage with isInteractive true leaves the file out.json existing
\* and holding the empty map {}, and returns null.
C2_InteractiveResetEmpties ==
    (call.task = "resetCoverage" /\ call.arg = "interactive") =>
        /\ coverageFolder
        /\ nycFilename = File(<<LB, RB>>)
        /\ result = Null

C2_Witness ==
    /\ call.task = "resetCoverage" /\ call.arg = "interactive"
    /\ nycFilename.exists
    /\ history = "saved"

\* C3: resetCoverage with isInteractive false leaves the file and its folder
\* as they were, absent or present, and returns null.
C3_HeadlessResetNoOp ==
    [][(call'.task = "resetCoverage" /\ call'.arg = "headless") =>
        /\ nycFilename' = nycFilename
        /\ coverageFolder' = coverageFolder
        /\ result' = Null]_vars

C3_Witness ==
    /\ call.task = "resetCoverage" /\ call.arg = "headless"
    /\ nycFilename.exists /\ combines = 2 /\ Len(Persisted) = 2

\* C4: combineCoverage with a payload that is not JSON throws the parse
\* failure and leaves the file and its folder as they were; the payloads
\* combined later are still accounted for in full.
C4_MalformedPayloadThrows ==
    [][(call'.task = "combineCoverage" /\ call'.arg = "malformed") =>
        /\ result' = Throws("SyntaxError")
        /\ nycFilename' = nycFilename
        /\ coverageFolder' = coverageFolder
        /\ combines' = combines]_vars

C4_Witness ==
    /\ call.task = "combineCoverage" /\ call.arg = "malformed"
    /\ result.kind = "throw"
    /\ nycFilename.exists /\ combines = 1 /\ Len(Persisted) = 1

\* C5: coverageReport called while out.json does not exist returns null, starts
\* neither the script nor the reporting engine, runs no path step and neither
\* creates nor changes the file.
C5_ReportWithoutFileSkips ==
    [][(call'.task = "coverageReport" /\ ~nycFilename.exists) =>
        /\ result' = Null
        /\ call'.spawned = 0 /\ call'.engine = 0 /\ ~call'.pathSteps
        /\ nycFilename' = nycFilename
        /\ coverageFolder' = coverageFolder]_vars

C5_Witness ==
    /\ call.task = "coverageReport" /\ result = Null
    /\ ~nycFilename.exists /\ ~coverageFolder

\* C6, as stated: with out.json present, coverageReport starts the custom
\* script once and returns its result without the reporting engine whenever
\* package.json defines the script, and runs the engine without a subprocess
\* when it does not.
C6_ScriptWheneverDefined ==
    [][(call'.task = "coverageReport" /\ nycFilename.exists) =>
        IF customNycReportScript # "undefined"
        THEN /\ call'.spawned = 1 /\ call'.engine = 0
             /\ result' \in {Resolved(Lit("execa")), Rejected("execa")}
        ELSE /\ call'.spawned = 0 /\ call'.engine = 1]_vars

\* C6, amended: the same, for a script that is defined and not the empty
\* string; with no script or an empty one the engine runs and no subprocess is
\* started.
C6_ScriptOrEngine ==
    [][(call'.task = "coverageReport" /\ nycFilename.exists) =>
        IF customNycReportScript \notin {"undefined", ""}
        THEN /\ call'.spawned = 1 /\ call'.engine = 0
             /\ result' \in {Resolved(Lit("execa")), Rejected("execa")}
        ELSE /\ call'.spawned = 0 /\ call'.engine = 1]_vars

C6_Witness ==
    /\ call.task = "coverageReport" /\ customNycReportScript = "nyc report"
    /\ call.spawned = 1 /\ result = Resolved(Lit("execa"))

\* C7: the persisted map holds, for every file some payload covered, the sum
\* of that file's hit counts over all the payloads combined, whatever the order
\* of the calls, and holds no other file.
C7_MergeSums ==
    (fresh /\ combines > 0) =>
        /\ nycFilename.exists
        /\ Len(Persisted) = Cardinality(Covered)
        /\ \A name \in Files :
              IF times[name] > 0 THEN HasEntry(name, total[name])
              ELSE \A i \in 1..Len(Persisted) : Persisted[i].key.name # name

C7_Witness ==
    /\ fresh /\ combines = 2 /\ times["a.js"] = 2 /\ times["b.js"] = 1
    /\ HasEntry("a.js", <<2, 1>>)
    /\ HasEntry("b.js", <<1>>)

\* C8: without a custom script, when the reporting engine completes and a
\* report directory is configured, coverageReport resolves to the absolute
\* report directory, also when coverage-final.json is not there.
C8_ReportFolderReturned ==
    (/\ call.task = "coverageReport" /\ call.arg = "engine"
     /\ call.reportDir # NoStr) =>
        result = Resolved(Abs(call.reportDir.name))

\* C9: the map loaded from out.json right after saveCoverage(m) is m, and
\* loading when there is no file gives the empty map.
C9_SaveLoadRoundTrip ==
    /\ saved.valid => (nycFilename.exists /\ loadCoverage = saved.map)
    /\ ~nycFilename.exists => loadCoverage = <<>>

C9_Witness ==
    /\ saved.valid /\ Len(saved.map) = 2
    /\ saved.map[1].s = <<1, 2>> /\ saved.map[2].s = <<2>>

\* C10: no task deletes out.json; once a combineCoverage or an interactive
\* resetCoverage has succeeded every coverageReport passes the missing-file
\* gate; before that, with the file absent at the start, every coverageReport
\* returns null at the gate.
C10_FileStays ==
    [][/\ nycFilename.exists => nycFilename'.exists
       /\ history' = "saved" => nycFilename'.exists
       /\ (call'.task = "coverageReport" /\ history = "saved") =>
             (call'.pathSteps /\ call'.spawned + call'.engine = 1)
       /\ (call'.task = "coverageReport" /\ history = "absent") =>
             (result' = Null /\ ~call'.pathSteps
                /\ call'.spawned + call'.engine = 0)]_vars

C10_Witness ==
    /\ call.task = "coverageReport" /\ history = "saved"
    /\ call.pathSteps /\ combines = 1

====
